---- MODULE Spec2Model ----
(***************************************************************************)
(* The faceless-video generator: handleGenerate (script, images, audio,    *)
(* assembly) of src/components/FacelessVideoGenerator.tsx and the          *)
(* assembleVideo pipeline it awaits: image decode, audio start, encoder    *)
(* (MediaRecorder) set-up, the requestAnimationFrame render loop and the   *)
(* encoder's dataavailable / stop / error events.                          *)
(*                                                                         *)
(* Time is counted in whole units; audioDuration D and the elapsed time    *)
(* are whole numbers of units, so elapsedTime / (D / N) is the exact       *)
(* quotient elapsedTime * N / D.                                           *)
(*                                                                         *)
(* The browser is modelled as the platform documents it: an Image fires    *)
(* load or error once; requestAnimationFrame callbacks get non-decreasing  *)
(* timestamps; a MediaRecorder delivers its events in order, answers       *)
(* stop() with a last dataavailable and then stop, and on an encoder       *)
(* failure goes inactive and fires error, dataavailable, stop.             *)
(*                                                                         *)
(* Spec follows the component up to and through its first call of         *)
(* assembleVideo; runs refused or failed before that call may be repeated. *)
(* FairSpec adds the fairness of the service, the browser's events and     *)
(* the animation frames. RerunSpec goes on through a second call after a   *)
(* first that produced a video. AppSpec is the application around the      *)
(* generators: AuthProvider (login, logout, limits, credits, the stored    *)
(* usage), the tabs of AppLayout and the generate handlers in flight.      *)
(* EditorSpec, AudioSpec and VideoSpec are the application with the user   *)
(* in the photo editor (edit history, undo, redo), in the audio creator    *)
(* (playback sources and their ended events) and in the product video      *)
(* generator (key check, polling, download).                               *)
(***************************************************************************)
EXTENDS Integers, Sequences, FiniteSets, TLC

\* ---------------------------------------------------------------- bounds
MaxScenes == 3
MaxDuration == 4
MaxChunks == 2
MaxSetupDelay == 1
MaxOffSchemaScenes == 1
MaxRuns == 2
MaxInFlight == 2
MaxStarts == 3

MaxClock == MaxSetupDelay + MaxDuration + 1

\* ------------------------------------------------------- program constants
FREE_LIMITS == [image |-> 5, video |-> 2, audio |-> 3, facelessVideo |-> 1]
INITIAL_CREDITS == 100
BLOB_TYPE == "video/webm"

VARIABLES
  \* the host browser (fixed for a behaviour)
  ctxOk,            \* canvas.getContext('2d') returns a context
  captureOk,        \* canvas.captureStream exists and does not throw
  codecOk,          \* new MediaRecorder(stream, {mimeType}) does not throw
  apiKey,           \* process.env.API_KEY is set
  \* AuthProvider state
  isAuthenticated, usage, credits, isModalOpen,
  stored,           \* localStorage item 'usageLimits'
  \* FacelessVideoGenerator component state
  hgPc,             \* where handleGenerate is suspended
  hgAuth,           \* isAuthenticated as closed over by the running handleGenerate
  title, isLoading, error, progress, result, audioContext,
  \* one assembleVideo call: the locals of its executor and its promise
  asmPc, promise, N, D, img,
  audioStarts, audioStartTime, recStartTime,
  recState, recStarts, evQueue, emitted, chunks, blob,
  startTime, clock, rafPending, rafCalls, currentScene,
  lastElapsed, lastFrame, framesRendered, stopRequests, lastTick, errorReported,
  imageElements,    \* what the awaited Promise.all resolved with (image numbers)
  loadOrder,        \* the images whose load events fired while Promise.all waits, in that order
  outOfOrder,       \* the loads completed in another order than that of the input
  imgSize,          \* native width and height of the decoded images
  imgGenFailed,     \* generateImages threw in the current handleGenerate run
  scriptBad,        \* the script response of the current run was malformed or off the schema
  stepsOk,          \* how many of the four steps of the current run have succeeded
  incCalls,         \* calls of incrementUsage('facelessVideo') by handleGenerate so far
  runNo,            \* 1 up to the first call of assembleVideo, 2 after the click that follows it
  \* the application around the generators: tabs, mounted component, handler runs
  activeTab,        \* AppLayout's activeTab
  comp,             \* state of the mounted generator component
  runs,             \* the generate handlers in flight, in the order they started
  started,          \* how many handler runs have passed their checks
  everAuth,         \* the user has been signed in at some time
  lastOp,           \* the last event of the application
  \* AppLayout's productImage and the ImageEditor component
  productImage,     \* 0 for null, else the number of the uploaded image
  sourceImage, editHistory, currentHistoryIndex,
  edLoading,        \* ImageEditor's isLoading
  edError,          \* ImageEditor's error is set
  edReqs,           \* the edit requests in flight with what their handler closed over
  reads,            \* the fileToBase64 reads in flight (mounted: their component is)
  uploads,          \* images read so far
  edits,            \* edits received so far; the edit's number stands for its data
  lastEd,           \* the last event of the image editor
  \* the TTSGenerator component
  ttsLoading,       \* TTSGenerator's isLoading
  isPlaying, generatedAudio,
  ttsError,         \* TTSGenerator's error is set
  ttsCtx,           \* audioContextRef.current: "none", "running" or "closed"
  audioSourceRef,   \* 0 for null, else the number of the source
  sources,          \* the AudioBufferSourceNodes created by playAudio, by number
  ttsReqs,          \* the handleGenerate calls in flight
  lastTts,          \* the last event of the audio creator
  \* the VideoGenerator component
  apiKeySelected,
  vidLoading,       \* VideoGenerator's isLoading
  vidError,         \* VideoGenerator's error is set
  generatedVideoUrl,
  vidRuns,          \* the handleGenerateVideo calls in flight
  lastVid           \* the last event of the video generator

envVars == <<ctxOk, captureOk, codecOk, apiKey>>
authVars == <<isAuthenticated, usage, credits, isModalOpen, stored>>
hgVars == <<hgPc, hgAuth, title, isLoading, error, progress, result, audioContext>>
recVars == <<recState, recStarts, evQueue, emitted, chunks, blob, errorReported>>
loopVars == <<startTime, clock, rafPending, rafCalls, currentScene,
              lastElapsed, lastFrame, framesRendered, stopRequests, lastTick>>
decVars == <<imageElements, loadOrder, outOfOrder, imgSize>>
runVars == <<imgGenFailed, scriptBad>>
cntVars == <<stepsOk, incCalls, runNo>>
appVars == <<activeTab, comp, runs, started, everAuth, lastOp>>
asmVars == <<asmPc, promise, N, D, img, audioStarts, audioStartTime, recStartTime,
             recVars, loopVars, decVars>>
genVars == <<envVars, hgVars, asmVars, runVars, cntVars>>
edVars == <<productImage, sourceImage, editHistory, currentHistoryIndex, edLoading,
            edError, edReqs, reads, uploads, edits, lastEd>>
ttsVars == <<ttsLoading, isPlaying, generatedAudio, ttsError, ttsCtx, audioSourceRef,
             sources, ttsReqs, lastTts>>
vidVars == <<apiKeySelected, vidLoading, vidError, generatedVideoUrl, vidRuns, lastVid>>
toolVars == <<edVars, ttsVars, vidVars>>
vars == <<envVars, authVars, hgVars, asmVars, runVars, cntVars, appVars, toolVars>>

\* ----------------------------------------------------------------- helpers
Min(a, b) == IF a <= b THEN a ELSE b

NoTick == [t |-> 0, seen |-> FALSE, rendered |-> FALSE, scheduled |-> FALSE,
           stopped |-> FALSE]
NoFrame == [scene |-> 0, image |-> 0, p |-> 0, scale |-> 0, x |-> 0, y |-> 0, w |-> 0, h |-> 0]
NoSize == [w |-> 0, h |-> 0]
NoBlob == [built |-> FALSE, type |-> "", parts |-> <<>>]
NoResult == [scriptData |-> [present |-> FALSE, scenes |-> 0], videoUrl |-> FALSE]
NoOp == [op |-> "none", type |-> "none", auth |-> FALSE, afterLogout |-> FALSE]

\* a generator component as it mounts: useState(false), useState(null)
FreshComp == [isLoading |-> FALSE, error |-> FALSE, hasResult |-> FALSE]

\* the sequence without its k-th element
Remove(seq, k) == [i \in 1..(Len(seq) - 1) |-> IF i < k THEN seq[i] ELSE seq[i + 1]]

\* ------------------------------------------------------------ AuthProvider
ZeroUsage == [image |-> 0, video |-> 0, audio |-> 0, facelessVideo |-> 0]

\* localStorage.removeItem('usageLimits')
RemoveItem == [present |-> FALSE, value |-> ZeroUsage]

\* localStorage.setItem('usageLimits', JSON.stringify(newUsage))
SetItem(u) == [present |-> TRUE, value |-> u]

Cost(type) == IF type = "facelessVideo" THEN 10 ELSE 1

checkLimit(type) ==
  IF isAuthenticated THEN credits >= Cost(type)
  ELSE usage[type] < FREE_LIMITS[type]

\* the credits lowered without the floor at 0
incrementUsageUnfloored(type, auth) ==
  IF auth
    THEN /\ credits' = credits - Cost(type)
         /\ UNCHANGED <<usage, stored>>
    ELSE /\ usage' = [usage EXCEPT ![type] = usage[type] + 1]
         /\ stored' = SetItem(usage')
         /\ UNCHANGED credits

\* incrementUsage as the render that started the handler closed over it
incrementUsage(type, auth) ==
  IF auth
    THEN /\ credits' = (IF credits >= Cost(type) THEN credits - Cost(type) ELSE 0)
         /\ UNCHANGED <<usage, stored>>
    ELSE /\ usage' = [usage EXCEPT ![type] = usage[type] + 1]
         /\ stored' = SetItem(usage')
         /\ UNCHANGED credits

showLoginModal == isModalOpen' = (IF ~isAuthenticated THEN TRUE ELSE isModalOpen)

\* ------------------------------------------------------ the scene scheduler
\* Math.floor(elapsedTime / sceneDuration) with sceneDuration = d / n;
\* n = 0 makes sceneDuration Infinity and the quotient 0
SceneQuotient(elapsed, d, n) == IF n = 0 THEN 0 ELSE (elapsed * n) \div d

\* the index rounded up instead of down, clamped to the image count
SceneIndexRoundedUp(elapsed, d, n) ==
  Min(IF n = 0 THEN 0 ELSE (elapsed * n + d - 1) \div d, n)

\* the scene picked by the number of frames drawn so far, not by the time
SceneIndexByTickCount(elapsed, d, n) ==
  Min(IF n = 0 THEN 0 ELSE (framesRendered * n) \div d, n - 1)

SceneIndex(elapsed, d, n) == Min(SceneQuotient(elapsed, d, n), n - 1)

\* ------------------------------------------------------------- the encoder
DataEvent(k) == [kind |-> "data", data |-> k]
StopEvent == [kind |-> "stop", data |-> 0]
ErrorEvent == [kind |-> "error", data |-> 0]

NextChunk == Len(emitted) + 1

\* the new chunk put in front of the earlier ones
OnDataAvailableUnshift(cs, data) == <<data>> \o cs

\* recorder.ondataavailable = (e) => chunks.push(e.data)
OnDataAvailable(cs, data) == Append(cs, data)

\* new Blob(chunks, { type: 'video/webm' })
MakeBlob(cs) == [built |-> TRUE, type |-> BLOB_TYPE, parts |-> cs]

\* --------------------------------------------- handleGenerate's two endings
\* the finally block alone: the error is not shown
HgCatchSilent ==
  /\ isLoading' = FALSE
  /\ progress' = 0
  /\ audioContext' = "closed"
  /\ hgPc' = "idle"
  /\ UNCHANGED <<hgAuth, title, result, error>>
  /\ UNCHANGED <<authVars, cntVars>>

\* incrementUsage moved into the finally block
HgCatchCharging ==
  /\ error' = "An error occurred"
  /\ isLoading' = FALSE
  /\ progress' = 0
  /\ audioContext' = "closed"
  /\ hgPc' = "idle"
  /\ incrementUsage("facelessVideo", hgAuth)
  /\ incCalls' = incCalls + 1
  /\ UNCHANGED <<hgAuth, title, result, stepsOk, runNo, isAuthenticated, isModalOpen>>

\* catch (err) { setError(...) } finally { ... }
HgCatch ==
  /\ error' = "An error occurred"
  /\ isLoading' = FALSE
  /\ progress' = 0
  /\ audioContext' = "closed"
  /\ hgPc' = "idle"
  /\ UNCHANGED <<hgAuth, title, result>>
  /\ UNCHANGED <<authVars, cntVars>>

\* lines 91-94, then finally
HgThen ==
  /\ result' = [result EXCEPT !.videoUrl = TRUE]
  /\ incrementUsage("facelessVideo", hgAuth)
  /\ incCalls' = incCalls + 1
  /\ stepsOk' = 4
  /\ UNCHANGED runNo
  /\ isLoading' = FALSE
  /\ progress' = 0
  /\ audioContext' = "closed"
  /\ hgPc' = "idle"
  /\ UNCHANGED <<hgAuth, title, error, isAuthenticated, isModalOpen>>

\* the promise of assembleVideo is settled only while it is pending; the
\* awaiting handleGenerate resumes in the same turn (a microtask)
Settle(outcome) ==
  IF promise = "pending"
    THEN /\ promise' = outcome
         /\ IF hgPc = "assemble"
              THEN IF outcome = "resolved" THEN HgThen ELSE HgCatch
              ELSE UNCHANGED <<hgVars, authVars, cntVars>>
    ELSE UNCHANGED <<promise, hgVars, authVars, cntVars>>

\* ------------------------------------------------------------------- Init
InitEnv ==
  /\ ctxOk \in BOOLEAN
  /\ captureOk \in BOOLEAN
  /\ codecOk \in BOOLEAN
  /\ apiKey \in BOOLEAN

InitAuth ==
  /\ isAuthenticated \in BOOLEAN
  /\ usage \in {[image |-> 0, video |-> 0, audio |-> 0, facelessVideo |-> u] :
                  u \in 0..FREE_LIMITS.facelessVideo}
  \* a signed-in user has the initial credits, or has spent them down to
  \* fewer than a faceless video costs
  /\ credits \in {INITIAL_CREDITS, INITIAL_CREDITS - 91}
  /\ (isAuthenticated => usage.facelessVideo = 0)
  /\ (~isAuthenticated => credits = INITIAL_CREDITS)
  /\ isModalOpen = FALSE
  /\ stored = (IF usage = ZeroUsage THEN RemoveItem ELSE SetItem(usage))

\* the faceless-video component as it mounts, no assembleVideo call yet
InitGenerator ==
  /\ hgPc = "idle"
  /\ hgAuth = FALSE
  /\ title = "Top 5 Future AI Technologies"
  /\ isLoading = FALSE
  /\ error = "null"
  /\ progress = 0
  /\ result = NoResult
  /\ audioContext = "null"
  /\ asmPc = "idle"
  /\ promise = "none"
  /\ N = 0
  /\ D = 0
  /\ img = <<>>
  /\ audioStarts = 0
  /\ audioStartTime = 0
  /\ recStartTime = 0
  /\ recState = "none"
  /\ recStarts = 0
  /\ evQueue = <<>>
  /\ emitted = <<>>
  /\ chunks = <<>>
  /\ blob = NoBlob
  /\ errorReported = FALSE
  /\ startTime = 0
  /\ clock = 0
  /\ rafPending = FALSE
  /\ rafCalls = 0
  /\ currentScene = 0
  /\ lastElapsed = 0
  /\ lastFrame = NoFrame
  /\ framesRendered = 0
  /\ stopRequests = 0
  /\ lastTick = NoTick
  /\ imageElements = <<>>
  /\ loadOrder = <<>>
  /\ outOfOrder = FALSE
  /\ imgSize = NoSize
  /\ imgGenFailed = FALSE
  /\ scriptBad = FALSE
  /\ stepsOk = 0
  /\ incCalls = 0
  /\ runNo = 1

\* the faceless-video tab is shown, no handler is running
InitApp ==
  /\ activeTab = "faceless"
  /\ comp = FreshComp
  /\ runs = <<>>
  /\ started = 0
  /\ everAuth = isAuthenticated
  /\ lastOp = NoOp

\* the last event of a tool before any: nothing yet
NoEd == [op |-> "none", from |-> -1, hist |-> <<>>, idx |-> -1, new |-> 0,
         prevOp |-> "none", prevFrom |-> -1]
NoTts == [op |-> "none", source |-> 0]
NoVid == [op |-> "none", exit |-> "none", interval |-> "none", link |-> FALSE,
          video |-> FALSE, counted |-> FALSE, mounted |-> FALSE]

\* ImageEditor's useState initial values (TTSGenerator.tsx 222-227) with no
\* product image in AppLayout (part_000 line 56)
InitEditor ==
  /\ productImage = 0
  /\ sourceImage = 0
  /\ editHistory = <<>>
  /\ currentHistoryIndex = -1
  /\ edLoading = FALSE
  /\ edError = FALSE
  /\ edReqs = <<>>
  /\ reads = <<>>
  /\ uploads = 0
  /\ edits = 0
  /\ lastEd = NoEd

\* TTSGenerator's useState and useRef initial values (TTSGenerator.tsx 10-19)
InitTts ==
  /\ ttsLoading = FALSE
  /\ isPlaying = FALSE
  /\ generatedAudio = FALSE
  /\ ttsError = FALSE
  /\ ttsCtx = "none"
  /\ audioSourceRef = 0
  /\ sources = <<>>
  /\ ttsReqs = <<>>
  /\ lastTts = NoTts

\* VideoGenerator's useState initial values (part_001 16-22)
InitVideo ==
  /\ apiKeySelected = FALSE
  /\ vidLoading = FALSE
  /\ vidError = FALSE
  /\ generatedVideoUrl = FALSE
  /\ vidRuns = <<>>
  /\ lastVid = NoVid

InitTools == InitEditor /\ InitTts /\ InitVideo

Init == InitEnv /\ InitAuth /\ InitGenerator /\ InitApp /\ InitTools

\* ------------------------------------------------------ assembleVideo
setupVars == <<asmPc, audioStarts, audioStartTime, recStartTime, recState, recStarts,
               chunks, startTime, clock, rafPending, rafCalls, currentScene>>

\* one chunks array shared by every call
ChunksKept(old) == old

\* const chunks: Blob[] = [], line 284: each call has its own, empty array
NewChunks(old) == <<>>

\* source.start() never called
SourceStartMissing(k) == k

\* source.start(), line 278: one more playback of the narration started
SourceStart(k) == k + 1

\* lines 270-324, run once the awaited Promise.all has resolved. A throw in
\* here is a throw inside the async executor: it rejects the executor's own
\* promise and leaves the promise of assembleVideo as it is. The audio source
\* is started at line 278, the recorder at line 294 and the epoch is sampled
\* at line 297: the clock may move between the three.
Setup ==
  IF ~captureOk
    THEN /\ asmPc' = "thrown"
         /\ UNCHANGED <<audioStarts, audioStartTime, recStartTime, recState, recStarts,
                        chunks, startTime, clock, rafPending, rafCalls, currentScene>>
    ELSE IF ~codecOk
      THEN /\ audioStarts' = SourceStart(audioStarts)
           /\ audioStartTime' = clock
           /\ asmPc' = "thrown"
           /\ UNCHANGED <<recStartTime, recState, recStarts, chunks, startTime, clock,
                          rafPending, rafCalls, currentScene>>
      ELSE \E delta \in 0..MaxSetupDelay : \E recDelay \in 0..delta :
           /\ audioStarts' = SourceStart(audioStarts)
           /\ audioStartTime' = clock
           /\ chunks' = NewChunks(chunks)
           /\ recState' = "recording"
           /\ recStarts' = recStarts + 1
           /\ recStartTime' = clock + recDelay
           /\ currentScene' = 0
           /\ startTime' = clock + delta
           /\ clock' = clock + delta
           /\ rafPending' = TRUE
           /\ rafCalls' = rafCalls + 1
           /\ asmPc' = "recording"

\* the elements in the order their load events fired
PromiseAllInCompletionOrder(n, order) == order

\* Promise.all(images.map(...)), lines 258-268: the elements in the order of
\* the input images, whatever the order the loads completed in
PromiseAll(n, order) == [i \in 1..n |-> i]

\* native sizes of the generated images
ImageSizes == {[w |-> 1024, h |-> 1024], [w |-> 1920, h |-> 1080]}

\* lines 245-268: the executor up to its await
AssembleVideo(n, d) ==
  /\ N' = n
  /\ D' = d
  /\ img' = [i \in 1..n |-> "loading"]
  /\ imgSize' \in ImageSizes
  /\ loadOrder' = <<>>
  /\ outOfOrder' = FALSE
  /\ UNCHANGED <<evQueue, emitted, blob, errorReported, lastElapsed, lastFrame,
                 framesRendered, stopRequests, lastTick>>
  /\ IF ~ctxOk
       THEN /\ promise' = "rejected"
            /\ asmPc' = "returned"
            /\ UNCHANGED imageElements
            /\ UNCHANGED <<audioStarts, audioStartTime, recStartTime, recState,
                           recStarts, chunks, startTime, clock, rafPending, rafCalls,
                           currentScene>>
       ELSE /\ promise' = "pending"
            /\ IF n = 0
                 THEN /\ imageElements' = PromiseAll(n, <<>>)
                      /\ Setup
                 ELSE /\ asmPc' = "decoding"
                      /\ UNCHANGED imageElements
                      /\ UNCHANGED <<audioStarts, audioStartTime, recStartTime, recState,
                                     recStarts, chunks, startTime, clock, rafPending,
                                     rafCalls, currentScene>>

\* el.onload = () => resolve(el); the last one lets Promise.all resolve
ImageLoad(i) ==
  /\ asmPc \in {"decoding", "thrown"}
  /\ i \in 1..N
  /\ img[i] = "loading"
  /\ img' = [img EXCEPT ![i] = "loaded"]
  /\ LET order == Append(loadOrder, i)
     IN IF asmPc = "decoding" /\ \A j \in 1..N : img'[j] = "loaded"
          THEN /\ imageElements' = PromiseAll(N, order)
               /\ loadOrder' = <<>>
               /\ outOfOrder' = (order # [k \in 1..N |-> k])
               /\ Setup
          ELSE /\ loadOrder' = order
               /\ UNCHANGED <<imageElements, outOfOrder, setupVars>>
  /\ UNCHANGED <<promise, N, D, evQueue, emitted, blob, errorReported, lastElapsed,
                 lastFrame, framesRendered, stopRequests, lastTick, imgSize>>
  /\ UNCHANGED <<toolVars, appVars, envVars, authVars, hgVars, cntVars, runVars>>

\* el.onerror = reject: the inner promise, hence Promise.all, hence the await
ImageError(i) ==
  /\ asmPc \in {"decoding", "thrown"}
  /\ i \in 1..N
  /\ img[i] = "loading"
  /\ img' = [img EXCEPT ![i] = "failed"]
  /\ asmPc' = "thrown"
  /\ UNCHANGED <<promise, N, D, audioStarts, audioStartTime, recStartTime, recVars,
                 loopVars, decVars>>
  /\ UNCHANGED <<toolVars, appVars, envVars, authVars, hgVars, cntVars, runVars>>

\* ------------------------------------------------------------ the animator
\* canvas.width = 1280; canvas.height = 720
CANVAS_WIDTH == 1280
CANVAS_HEIGHT == 720
\* the zoom of the Ken Burns effect is progress * 0.1 = progress / ZOOM_DIV
ZOOM_DIV == 10

\* elapsedTime / sceneDuration, the modulo forgotten
SceneProgressNoModulo(elapsed, d, n) == IF n = 0 THEN 0 ELSE elapsed * n

\* (timeInScene / sceneDuration) in units of 1/d, with timeInScene =
\* elapsedTime % sceneDuration and sceneDuration = d / n; n = 0 makes
\* sceneDuration Infinity and the quotient 0
SceneProgress(elapsed, d, n) == IF n = 0 THEN 0 ELSE (elapsed * n) % d

\* scale = 1 + (timeInScene / sceneDuration) * 0.1, in units of 1/(ZOOM_DIV*d)
Scale(p, d) == ZOOM_DIV * d + p

\* image.width * scale (and height), in units of 1/(2*ZOOM_DIV*d) pixel
DestSize(native, p, d) == 2 * native * Scale(p, d)

\* the image centred at its native size, whatever the scale
DestPosUnscaled(canvas, native, p, d) ==
  canvas * ZOOM_DIV * d - native * ZOOM_DIV * d

\* (canvas.width - image.width * scale) / 2, in units of 1/(2*ZOOM_DIV*d) pixel
DestPos(canvas, native, p, d) == canvas * ZOOM_DIV * d - native * Scale(p, d)

\* the test that ends the loop one tick too late
TimelineEndedStrict(elapsed, d) == elapsed > d

\* if (elapsedTime >= audioDuration), line 302
TimelineEnded(elapsed, d) == elapsed >= d

\* lines 299-322: one requestAnimationFrame callback
Draw(now) ==
  /\ rafPending
  /\ now >= clock
  /\ lastTick.seen => now > clock
  /\ clock' = now
  /\ LET elapsedTime == now - startTime
         scene == SceneIndex(elapsedTime, D, N)
         p == SceneProgress(elapsedTime, D, N)
     IN IF TimelineEnded(elapsedTime, D)
          THEN \* recorder.stop(); return
               /\ stopRequests' = stopRequests + 1
               /\ IF recState = "recording"
                    THEN /\ recState' = "inactive"
                         /\ evQueue' = evQueue \o <<DataEvent(NextChunk), StopEvent>>
                         /\ emitted' = Append(emitted, NextChunk)
                    ELSE UNCHANGED <<recState, evQueue, emitted>>
               /\ rafPending' = FALSE
               /\ lastTick' = [t |-> elapsedTime, seen |-> TRUE, rendered |-> FALSE,
                               scheduled |-> FALSE, stopped |-> TRUE]
               /\ UNCHANGED <<currentScene, lastElapsed, lastFrame, framesRendered,
                              rafCalls>>
          ELSE /\ currentScene' = scene
               /\ IF scene \in 0..(Len(imageElements) - 1)
                    THEN \* drawImage, requestAnimationFrame(draw)
                         /\ framesRendered' = framesRendered + 1
                         /\ lastElapsed' = elapsedTime
                         /\ lastFrame' =
                              [scene |-> scene, image |-> imageElements[scene + 1],
                               p |-> p, scale |-> Scale(p, D),
                               x |-> DestPos(CANVAS_WIDTH, imgSize.w, p, D),
                               y |-> DestPos(CANVAS_HEIGHT, imgSize.h, p, D),
                               w |-> DestSize(imgSize.w, p, D),
                               h |-> DestSize(imgSize.h, p, D)]
                         /\ rafCalls' = rafCalls + 1
                         /\ rafPending' = TRUE
                         /\ lastTick' = [t |-> elapsedTime, seen |-> TRUE,
                                         rendered |-> TRUE, scheduled |-> TRUE,
                                         stopped |-> FALSE]
                    ELSE \* imageElements[scene] is undefined: image.width throws
                         /\ rafPending' = FALSE
                         /\ lastTick' = [t |-> elapsedTime, seen |-> TRUE,
                                         rendered |-> FALSE, scheduled |-> FALSE,
                                         stopped |-> FALSE]
                         /\ UNCHANGED <<framesRendered, lastElapsed, lastFrame, rafCalls>>
               /\ UNCHANGED <<stopRequests, recState, evQueue, emitted>>
  /\ UNCHANGED <<asmPc, promise, N, D, img, audioStarts, audioStartTime, recStartTime,
                 recStarts, chunks, blob, errorReported, startTime, decVars>>
  /\ UNCHANGED <<toolVars, appVars, envVars, authVars, hgVars, cntVars, runVars>>

Tick == \E now \in 0..MaxClock : Draw(now)

\* the encoder hands over a chunk while recording
EncoderEmit ==
  /\ recState = "recording"
  /\ Len(emitted) < MaxChunks
  /\ emitted' = Append(emitted, NextChunk)
  /\ evQueue' = Append(evQueue, DataEvent(NextChunk))
  /\ UNCHANGED <<asmPc, promise, N, D, img, audioStarts, audioStartTime, recStartTime, recState,
                 recStarts, chunks, blob, errorReported, loopVars>>
  /\ UNCHANGED <<toolVars, appVars, envVars, authVars, hgVars, cntVars, decVars, runVars>>

\* the encoder fails while recording: it goes inactive and fires error, then
\* dataavailable with what it had gathered, then stop
EncoderFail ==
  /\ recState = "recording"
  /\ recState' = "inactive"
  /\ emitted' = Append(emitted, NextChunk)
  /\ evQueue' = evQueue \o <<ErrorEvent, DataEvent(NextChunk), StopEvent>>
  /\ UNCHANGED <<asmPc, promise, N, D, img, audioStarts, audioStartTime, recStartTime,
                 recStarts, chunks, blob, errorReported, loopVars>>
  /\ UNCHANGED <<toolVars, appVars, envVars, authVars, hgVars, cntVars, decVars, runVars>>

\* lines 286-292: the recorder's next event reaches its handler
Deliver ==
  /\ evQueue # <<>>
  /\ evQueue' = Tail(evQueue)
  /\ LET e == Head(evQueue)
     IN CASE e.kind = "data" ->
               /\ chunks' = OnDataAvailable(chunks, e.data)
               /\ UNCHANGED <<blob, errorReported, promise, hgVars, authVars, cntVars>>
          [] e.kind = "stop" ->
               /\ blob' = MakeBlob(chunks)
               /\ Settle("resolved")
               /\ UNCHANGED <<chunks, errorReported>>
          [] e.kind = "error" ->
               /\ errorReported' = TRUE
               /\ Settle("rejected")
               /\ UNCHANGED <<chunks, blob>>
  /\ UNCHANGED <<asmPc, N, D, img, audioStarts, audioStartTime, recStartTime, recState, recStarts,
                 emitted, loopVars>>
  /\ UNCHANGED <<toolVars, appVars, envVars, decVars, runVars>>

\* ------------------------------------------------------- handleGenerate
\* lines 51-76: the click on "Generate Video" (disabled={isLoading || !title})
HandleGenerate ==
  /\ hgPc = "idle"
  /\ ~isLoading
  /\ title # ""
  /\ asmPc = "idle"
  /\ IF ~checkLimit("facelessVideo")
       THEN /\ showLoginModal
            /\ UNCHANGED <<isAuthenticated, usage, credits, stored, hgVars, cntVars>>
       ELSE IF title = ""
         THEN /\ error' = "Please enter a video title or topic."
              /\ UNCHANGED <<hgPc, hgAuth, title, isLoading, progress, result,
                             audioContext, authVars, cntVars>>
         ELSE IF ~apiKey
           THEN /\ error' = "API key is not configured."
                /\ UNCHANGED <<hgPc, hgAuth, title, isLoading, progress, result,
                               audioContext, authVars, cntVars>>
           ELSE /\ isLoading' = TRUE
                /\ error' = "null"
                /\ result' = NoResult
                /\ audioContext' = "running"
                /\ progress' = 1
                /\ hgAuth' = isAuthenticated
                /\ hgPc' = "script"
                /\ stepsOk' = 0
                /\ UNCHANGED <<title, authVars, incCalls, runNo>>
  /\ imgGenFailed' = (IF checkLimit("facelessVideo") /\ title # "" /\ apiKey
                        THEN FALSE ELSE imgGenFailed)
  /\ scriptBad' = (IF checkLimit("facelessVideo") /\ title # "" /\ apiKey
                     THEN FALSE ELSE scriptBad)
  /\ UNCHANGED <<toolVars, appVars, envVars, asmVars>>

\* <input onChange={(e) => setTitle(e.target.value)} disabled={isLoading}/>
SetTitle(t) ==
  /\ ~isLoading
  /\ title # t
  /\ title' = t
  /\ UNCHANGED <<hgPc, hgAuth, isLoading, error, progress, result, audioContext>>
  /\ UNCHANGED <<toolVars, appVars, envVars, authVars, asmVars, runVars, cntVars>>

\* what the script request can come to: a script that follows the schema,
\* JSON off the schema whose script member is an array, JSON without a script
\* array, text that is no JSON, a failed request
ScriptOutcomes == {"conforming", "offSchema", "noScript", "unparsable", "failed"}

\* generateScript, lines 105-136: return JSON.parse(response.text), nothing
\* else is checked
ScriptAccepted(kind) == kind \in {"conforming", "offSchema", "noScript"}

\* lines 76-81: generateScript answers. A parsed value without a script
\* array is stored by setResult (77) and makes generateImages throw at
\* scenes.map (139) before any request is sent.
ScriptResponse(kind, n) ==
  /\ hgPc = "script"
  /\ kind = "offSchema" => n <= MaxOffSchemaScenes
  /\ scriptBad' = (kind \in {"offSchema", "noScript", "unparsable"})
  /\ UNCHANGED imgGenFailed
  /\ IF ScriptAccepted(kind)
       THEN IF kind = "noScript"
              THEN /\ result' = [result EXCEPT
                                   !.scriptData = [present |-> TRUE, scenes |-> 0]]
                   /\ error' = "An error occurred"
                   /\ isLoading' = FALSE
                   /\ progress' = 0
                   /\ audioContext' = "closed"
                   /\ hgPc' = "idle"
                   /\ UNCHANGED <<hgAuth, title, authVars, cntVars>>
              ELSE /\ result' = [result EXCEPT
                                   !.scriptData = [present |-> TRUE, scenes |-> n]]
                   /\ progress' = 2
                   /\ hgPc' = "images"
                   /\ stepsOk' = 1
                   /\ UNCHANGED <<hgAuth, title, isLoading, error, audioContext,
                                  authVars, incCalls, runNo>>
       ELSE HgCatch
  /\ UNCHANGED <<toolVars, appVars, envVars, asmVars>>

\* what one image request can come to: inline image data, an answer without
\* inline data, a failed request
ImageOutcomes == {"image", "noData", "failed"}

\* an answer without inline data passes for an image
ImagesOkUnchecked(resp) == \A i \in DOMAIN resp : resp[i] # "failed"

\* generateImages, lines 138-154: Promise.all rejects when a request fails,
\* the map throws when a response has no inlineData
ImagesOk(resp) == \A i \in DOMAIN resp : resp[i] = "image"

\* lines 81-86: generateImages answers, one outcome per scene of the script
ImagesResponse(resp) ==
  /\ hgPc = "images"
  /\ imgGenFailed' = (\E i \in DOMAIN resp : resp[i] # "image")
  /\ UNCHANGED scriptBad
  /\ IF ImagesOk(resp)
       THEN /\ progress' = 3
            /\ hgPc' = "audio"
            /\ stepsOk' = 2
            /\ UNCHANGED <<hgAuth, title, isLoading, error, result, audioContext,
                           authVars, incCalls, runNo>>
       ELSE HgCatch
  /\ UNCHANGED <<toolVars, appVars, envVars, asmVars>>

\* lines 86-90 and 156-170: generateAudio answers with d units of narration
\* (or fails), then assembleVideo is called with the images and the audio
AudioResponse(ok, d) ==
  /\ hgPc = "audio"
  /\ IF ok
       THEN /\ AssembleVideo(result.scriptData.scenes, d)
            /\ IF ctxOk
                 THEN /\ progress' = 4
                      /\ hgPc' = "assemble"
                      /\ stepsOk' = 3
                      /\ UNCHANGED <<hgAuth, title, isLoading, error, result,
                                     audioContext, authVars, incCalls, runNo>>
                 ELSE HgCatch
       ELSE /\ HgCatch
            /\ UNCHANGED asmVars
  /\ UNCHANGED <<toolVars, appVars, envVars, runVars>>

\* The click on "Generate Video" after an earlier call of assembleVideo has
\* completed with a video and all its callbacks have run. The locals of the new call are
\* new variables: what the behaviour recorded about the first call starts
\* afresh, time is counted from this click on, and the variables that stand
\* for the locals chunks, currentScene, startTime and recorder keep their
\* values until the new call assigns them (lines 283-297).
HandleGenerateAgain ==
  /\ hgPc = "idle"
  /\ ~isLoading
  /\ title # ""
  /\ promise = "resolved"
  /\ \A i \in 1..N : img[i] # "loading"
  /\ ~rafPending
  /\ recState # "recording"
  /\ evQueue = <<>>
  /\ runNo < MaxRuns
  /\ IF ~checkLimit("facelessVideo")
       THEN /\ showLoginModal
            /\ UNCHANGED <<isAuthenticated, usage, credits, stored, hgVars, cntVars,
                           asmVars, runVars>>
       ELSE /\ isLoading' = TRUE
            /\ error' = "null"
            /\ result' = NoResult
            /\ audioContext' = "running"
            /\ progress' = 1
            /\ hgAuth' = isAuthenticated
            /\ hgPc' = "script"
            /\ stepsOk' = 0
            /\ runNo' = runNo + 1
            /\ imgGenFailed' = FALSE
            /\ scriptBad' = FALSE
            /\ asmPc' = "idle"
            /\ promise' = "none"
            /\ N' = 0
            /\ D' = 0
            /\ img' = <<>>
            /\ audioStarts' = 0
            /\ audioStartTime' = 0
            /\ recStartTime' = 0
            /\ recStarts' = 0
            /\ emitted' = <<>>
            /\ blob' = NoBlob
            /\ errorReported' = FALSE
            /\ clock' = 0
            /\ startTime' = startTime - clock
            /\ rafCalls' = 0
            /\ lastElapsed' = 0
            /\ lastFrame' = NoFrame
            /\ framesRendered' = 0
            /\ stopRequests' = 0
            /\ lastTick' = NoTick
            /\ imageElements' = <<>>
            /\ imgSize' = NoSize
            /\ UNCHANGED <<title, authVars, incCalls, recState, evQueue, chunks,
                           rafPending, currentScene, loadOrder, outOfOrder>>
  /\ UNCHANGED <<toolVars, appVars, envVars>>

Next ==
  \/ HandleGenerate
  \/ \E t \in {"", "Top 5 Future AI Technologies"} : SetTitle(t)
  \/ \E kind \in ScriptOutcomes, n \in 0..MaxScenes : ScriptResponse(kind, n)
  \/ \E resp \in [1..result.scriptData.scenes -> ImageOutcomes] : ImagesResponse(resp)
  \/ \E ok \in BOOLEAN, d \in 1..MaxDuration : AudioResponse(ok, d)
  \/ \E i \in 1..MaxScenes : ImageLoad(i)
  \/ \E i \in 1..MaxScenes : ImageError(i)
  \/ Tick
  \/ EncoderEmit
  \/ EncoderFail
  \/ Deliver

Spec == Init /\ [][Next]_vars

\* the remote service answers every request, every image fires load or
\* error, scheduled animation frames run and recorder events are delivered
Fairness ==
  /\ WF_vars(\E kind \in ScriptOutcomes, n \in 0..MaxScenes : ScriptResponse(kind, n))
  /\ WF_vars(\E resp \in [1..result.scriptData.scenes -> ImageOutcomes] :
               ImagesResponse(resp))
  /\ WF_vars(\E ok \in BOOLEAN, d \in 1..MaxDuration : AudioResponse(ok, d))
  /\ WF_vars(\E i \in 1..MaxScenes : ImageLoad(i) \/ ImageError(i))
  /\ WF_vars(Tick)
  /\ WF_vars(Deliver)

FairSpec == Spec /\ Fairness

\* the component through a second call of assembleVideo
NextRerun == Next \/ HandleGenerateAgain

RerunSpec == Init /\ [][NextRerun]_vars


\* ---------------------------------------------------------- the application
\* AuthProvider, AppLayout and the four generators as seen from AuthProvider:
\* each generate handler evaluates checkLimit at its start and calls
\* incrementUsage at its successful end. The generator shown is unmounted by
\* a change of tab; its handler, once started, runs on.
Tabs == {"faceless", "image", "video", "tts"}

\* the usage type of the generator that renderTabContent shows for a tab
TabType(tab) ==
  CASE tab = "image" -> "image"
    [] tab = "video" -> "video"
    [] tab = "tts" -> "audio"
    [] OTHER -> "facelessVideo"

Op(o, ty, a, l) == [op |-> o, type |-> ty, auth |-> a, afterLogout |-> l]

\* the handler sets isLoading before it looks at the limit
RefusedAfterLoading ==
  /\ showLoginModal
  /\ comp' = [comp EXCEPT !.isLoading = TRUE]
  /\ UNCHANGED <<isAuthenticated, usage, credits, stored, runs, started>>

\* if (!checkLimit(type)) { showLoginModal(); return; }
Refused ==
  /\ showLoginModal
  /\ UNCHANGED <<isAuthenticated, usage, credits, stored, comp, runs, started>>

\* The click on a generator's generate button (disabled while isLoading; the
\* login modal covers the page while it is open). ready: the inputs are there
\* and the API key is configured.
Generate(ready) ==
  /\ ~isModalOpen
  /\ ~comp.isLoading
  /\ LET type == TabType(activeTab)
     IN IF ~checkLimit(type)
          THEN /\ Refused
               /\ lastOp' = Op("refused", type, isAuthenticated, FALSE)
          ELSE IF ~ready
            THEN /\ comp' = [comp EXCEPT !.error = TRUE]
                 /\ lastOp' = Op("invalid", type, isAuthenticated, FALSE)
                 /\ UNCHANGED <<authVars, runs, started>>
            ELSE /\ Len(runs) < MaxInFlight
                 /\ started < MaxStarts
                 /\ comp' = [isLoading |-> TRUE, error |-> FALSE, hasResult |-> FALSE]
                 /\ runs' = Append(runs, [type |-> type, auth |-> isAuthenticated,
                                          mounted |-> TRUE, loggedOut |-> FALSE])
                 /\ started' = started + 1
                 /\ lastOp' = Op("started", type, isAuthenticated, FALSE)
                 /\ UNCHANGED authVars
  /\ UNCHANGED <<activeTab, everAuth, genVars, toolVars>>

\* The k-th handler in flight comes to its end: the success path with
\* incrementUsage as the handler closed over it, or the catch block; the
\* setState calls of a handler whose component is unmounted change nothing.
Finish(k, ok) ==
  /\ k \in 1..Len(runs)
  /\ LET run == runs[k]
     IN /\ IF ok
             THEN /\ incrementUsage(run.type, run.auth)
                  /\ UNCHANGED <<isAuthenticated, isModalOpen>>
             ELSE UNCHANGED authVars
        /\ comp' = IF run.mounted
                     THEN [isLoading |-> FALSE, error |-> ~ok, hasResult |-> ok]
                     ELSE comp
        /\ lastOp' = Op(IF ok THEN "done" ELSE "failed", run.type, run.auth,
                        run.loggedOut)
  /\ runs' = Remove(runs, k)
  /\ UNCHANGED <<activeTab, started, everAuth, genVars, toolVars>>

\* TabButton onClick: setActiveTab(tabName); another generator is mounted
SetActiveTab(tab) ==
  /\ ~isModalOpen
  /\ tab # activeTab
  /\ activeTab' = tab
  /\ comp' = FreshComp
  /\ runs' = [i \in 1..Len(runs) |-> [runs[i] EXCEPT !.mounted = FALSE]]
  /\ lastOp' = Op("tab", TabType(tab), isAuthenticated, FALSE)
  /\ UNCHANGED <<authVars, started, everAuth, genVars, toolVars>>

\* login, from the header button or from the modal's buttons
Login ==
  /\ ~isAuthenticated
  /\ isAuthenticated' = TRUE
  /\ isModalOpen' = FALSE
  /\ everAuth' = TRUE
  /\ lastOp' = Op("login", "none", TRUE, FALSE)
  /\ UNCHANGED <<usage, credits, stored, activeTab, comp, runs, started, genVars, toolVars>>

\* logout that leaves the stored item in place
LogoutKeepingItem ==
  /\ isAuthenticated
  /\ ~isModalOpen
  /\ isAuthenticated' = FALSE
  /\ usage' = ZeroUsage
  /\ runs' = [i \in 1..Len(runs) |-> [runs[i] EXCEPT !.loggedOut = TRUE]]
  /\ lastOp' = Op("logout", "none", FALSE, FALSE)
  /\ UNCHANGED <<stored, credits, isModalOpen, activeTab, comp, started, everAuth, genVars, toolVars>>

\* logout, lines 227-232
Logout ==
  /\ isAuthenticated
  /\ ~isModalOpen
  /\ isAuthenticated' = FALSE
  /\ stored' = RemoveItem
  /\ usage' = ZeroUsage
  /\ runs' = [i \in 1..Len(runs) |-> [runs[i] EXCEPT !.loggedOut = TRUE]]
  /\ lastOp' = Op("logout", "none", FALSE, FALSE)
  /\ UNCHANGED <<credits, isModalOpen, activeTab, comp, started, everAuth, genVars, toolVars>>

\* LoginModal onClose
CloseModal ==
  /\ isModalOpen
  /\ isModalOpen' = FALSE
  /\ lastOp' = Op("close", "none", isAuthenticated, FALSE)
  /\ UNCHANGED <<isAuthenticated, usage, credits, stored, activeTab, comp, runs,
                 started, everAuth, genVars, toolVars>>

\* The application after AuthProvider's mount effect has read the stored
\* usage: nobody is signed in; the free uses of an earlier visit may be
\* stored, and the credits may have been spent down in this one.
AppInit ==
  /\ ctxOk = TRUE
  /\ captureOk = TRUE
  /\ codecOk = TRUE
  /\ apiKey = TRUE
  /\ isAuthenticated = FALSE
  /\ stored \in {RemoveItem,
                 SetItem([image |-> 5, video |-> 2, audio |-> 3, facelessVideo |-> 0])}
  /\ usage = stored.value
  /\ credits \in {INITIAL_CREDITS, INITIAL_CREDITS - 89}
  /\ isModalOpen = FALSE
  /\ InitGenerator
  /\ InitApp
  /\ InitTools

AppNext ==
  \/ \E ready \in BOOLEAN : Generate(ready)
  \/ \E k \in 1..MaxInFlight, ok \in BOOLEAN : Finish(k, ok)
  \/ \E tab \in Tabs : SetActiveTab(tab)
  \/ Login
  \/ Logout
  \/ CloseModal

AppSpec == AppInit /\ [][AppNext]_vars

\* ====================================================== the other three tools
\* ImageEditor, TTSGenerator (the audio creator) and VideoGenerator, each
\* mounted while its tab is shown. EditorSpec, AudioSpec and VideoSpec are
\* the application with the user working in one of them.
MaxUploads == 2
MaxSources == 3
MaxPolls == 2

\* a change of tab marks what is in flight as belonging to an unmounted
\* component: its setState calls change nothing from then on
Unmounted(seq) == [i \in 1..Len(seq) |-> [seq[i] EXCEPT !.mounted = FALSE]]

\* ImageEditor is unmounted, or mounted with initialImage = productImage
\* (useState 222-227 and the effect 230-234)
EdRemount(tab) ==
  /\ sourceImage' = (IF tab = "image" THEN productImage ELSE 0)
  /\ editHistory' = <<>>
  /\ currentHistoryIndex' = -1
  /\ edLoading' = FALSE
  /\ edError' = FALSE
  \* of an unmounted handler only its incrementUsage still has an effect
  /\ edReqs' = [i \in 1..Len(edReqs) |->
                 [hist |-> <<>>, idx |-> -1, auth |-> edReqs[i].auth, mounted |-> FALSE]]
  /\ reads' = Unmounted(reads)
  /\ lastEd' = NoEd
  /\ UNCHANGED <<productImage, uploads, edits>>

\* TTSGenerator is unmounted (the effect's cleanup closes its audio context,
\* which silences its sources) or mounted with a new context (21-27)
TtsRemount(tab) ==
  /\ ttsLoading' = FALSE
  /\ isPlaying' = FALSE
  /\ generatedAudio' = FALSE
  /\ ttsError' = FALSE
  /\ ttsCtx' = (IF tab = "tts" THEN "running"
                ELSE IF activeTab = "tts" THEN "closed" ELSE ttsCtx)
  /\ audioSourceRef' = 0
  /\ sources' = <<>>
  /\ ttsReqs' = Unmounted(ttsReqs)
  /\ lastTts' = NoTts

\* VideoGenerator is unmounted or mounted (useState 16-22)
VidRemount(tab) ==
  /\ apiKeySelected' = FALSE
  /\ vidLoading' = FALSE
  /\ vidError' = FALSE
  /\ generatedVideoUrl' = FALSE
  /\ vidRuns' = Unmounted(vidRuns)
  /\ lastVid' = NoVid

\* TabButton onClick with what renderTabContent then unmounts and mounts
SwitchTab(tab) ==
  /\ ~isModalOpen
  /\ tab # activeTab
  /\ activeTab' = tab
  /\ comp' = FreshComp
  /\ runs' = Unmounted(runs)
  /\ lastOp' = Op("tab", TabType(tab), isAuthenticated, FALSE)
  /\ EdRemount(tab)
  /\ TtsRemount(tab)
  /\ VidRemount(tab)
  /\ UNCHANGED <<authVars, started, everAuth, genVars>>

\* --------------------------------------------------------- the image editor
Ed(o, from, hist, idx, e) ==
  [op |-> o, from |-> from, hist |-> hist, idx |-> idx, new |-> e,
   prevOp |-> lastEd.op, prevFrom |-> lastEd.from]

\* Placeholder's onFileSelect: handleFileSelect up to its await (236-238);
\* the placeholder is shown while sourceImage is null
EdSelectFile ==
  /\ activeTab = "image"
  /\ ~isModalOpen
  /\ sourceImage = 0
  /\ uploads + Len(reads) < MaxUploads
  /\ reads' = Append(reads, [mounted |-> TRUE])
  /\ UNCHANGED <<productImage, sourceImage, editHistory, currentHistoryIndex, edLoading,
                 edError, edReqs, uploads, edits, lastEd>>
  /\ UNCHANGED <<authVars, appVars, genVars, ttsVars, vidVars>>

\* fileToBase64 settles (238-244): setSourceImage and onImageUpload, which
\* sets AppLayout's productImage; the mounted editor's effect on
\* [initialImage] then empties the history (230-234)
EdFileRead(k, ok) ==
  /\ k \in 1..Len(reads)
  /\ reads' = Remove(reads, k)
  /\ IF ok
       THEN /\ uploads' = uploads + 1
            /\ productImage' = uploads'
            /\ IF activeTab = "image"
                 THEN /\ sourceImage' = productImage'
                      /\ editHistory' = <<>>
                      /\ currentHistoryIndex' = -1
                      /\ lastEd' = Ed("upload", currentHistoryIndex, <<>>, -1, 0)
                 ELSE UNCHANGED <<sourceImage, editHistory, currentHistoryIndex, lastEd>>
            /\ UNCHANGED edError
       ELSE /\ edError' = (IF reads[k].mounted THEN TRUE ELSE edError)
            /\ UNCHANGED <<uploads, productImage, sourceImage, editHistory,
                           currentHistoryIndex, lastEd>>
  /\ UNCHANGED <<edLoading, edReqs, edits>>
  /\ UNCHANGED <<authVars, appVars, genVars, ttsVars, vidVars>>

\* the new history keeps the entries after the current one
NewHistoryKeepingTail(hist, idx, e) == Append(hist, e)

\* lines 275-276: editHistory.slice(0, currentHistoryIndex + 1), push(newEdit)
NewHistory(hist, idx, e) == Append(SubSeq(hist, 1, idx + 1), e)

\* the index set to the length of the new history
NewIndexPastEnd(hist) == Len(hist)

\* line 278: setCurrentHistoryIndex(newHistory.length - 1)
NewIndex(hist) == Len(hist) - 1

\* The click on Enhance (disabled while isLoading or without a source image,
\* line 334): handleGenerate up to its await (247-270). The handler closes
\* over editHistory and currentHistoryIndex of the render that was clicked.
EdGenerate ==
  /\ activeTab = "image"
  /\ ~isModalOpen
  /\ ~edLoading
  /\ sourceImage # 0
  /\ IF ~checkLimit("image")
       THEN /\ showLoginModal
            /\ UNCHANGED <<isAuthenticated, usage, credits, stored>>
            /\ UNCHANGED <<edLoading, edError, edReqs, lastEd, started>>
       ELSE IF ~apiKey
         THEN /\ edError' = TRUE
              /\ UNCHANGED <<authVars, edLoading, edReqs, lastEd, started>>
         ELSE /\ Len(edReqs) < MaxInFlight
              /\ started < MaxStarts
              /\ started' = started + 1
              /\ edLoading' = TRUE
              /\ edError' = FALSE
              /\ edReqs' = Append(edReqs, [hist |-> editHistory,
                                           idx |-> currentHistoryIndex,
                                           auth |-> isAuthenticated,
                                           mounted |-> TRUE])
              /\ lastEd' = Ed("request", currentHistoryIndex, <<>>, -1, 0)
              /\ UNCHANGED authVars
  /\ UNCHANGED <<productImage, sourceImage, editHistory, currentHistoryIndex, reads,
                 uploads, edits>>
  /\ UNCHANGED <<activeTab, comp, runs, everAuth, lastOp, genVars, ttsVars, vidVars>>

EdOutcomes == {"image", "noImage", "failed"}

\* generateContent settles for the k-th request in flight (272-287): with
\* inline image data the new history and index are set and the usage is
\* counted; otherwise the catch block sets the error; finally isLoading
EdResponse(k, outcome) ==
  /\ k \in 1..Len(edReqs)
  /\ edReqs' = Remove(edReqs, k)
  /\ LET req == edReqs[k]
     IN IF outcome = "image"
          THEN /\ incrementUsage("image", req.auth)
               /\ UNCHANGED <<isAuthenticated, isModalOpen>>
               /\ IF req.mounted
                    THEN /\ edits' = edits + 1
                         /\ editHistory' = NewHistory(req.hist, req.idx, edits')
                         /\ currentHistoryIndex' = NewIndex(editHistory')
                         /\ edLoading' = FALSE
                         /\ lastEd' = Ed("edited", currentHistoryIndex, req.hist,
                                         req.idx, edits')
                    ELSE UNCHANGED <<edits, editHistory, currentHistoryIndex, edLoading,
                                     lastEd>>
               /\ UNCHANGED edError
          ELSE /\ IF req.mounted
                    THEN /\ edError' = TRUE
                         /\ edLoading' = FALSE
                         /\ lastEd' = Ed("failed", currentHistoryIndex, <<>>, -1, 0)
                    ELSE UNCHANGED <<edError, edLoading, lastEd>>
               /\ UNCHANGED <<authVars, edits, editHistory, currentHistoryIndex>>
  /\ UNCHANGED <<productImage, sourceImage, reads, uploads>>
  /\ UNCHANGED <<appVars, genVars, ttsVars, vidVars>>

\* handleUndo (290-292); its button is disabled at index <= 0 (line 319)
EdUndo ==
  /\ activeTab = "image"
  /\ ~isModalOpen
  /\ currentHistoryIndex > 0
  /\ currentHistoryIndex' = currentHistoryIndex - 1
  /\ lastEd' = Ed("undo", currentHistoryIndex, <<>>, -1, 0)
  /\ UNCHANGED <<productImage, sourceImage, editHistory, edLoading, edError, edReqs,
                 reads, uploads, edits>>
  /\ UNCHANGED <<authVars, appVars, genVars, ttsVars, vidVars>>

\* handleRedo (293-295); its button is disabled at the last entry (line 320)
EdRedo ==
  /\ activeTab = "image"
  /\ ~isModalOpen
  /\ currentHistoryIndex < Len(editHistory) - 1
  /\ currentHistoryIndex' = currentHistoryIndex + 1
  /\ lastEd' = Ed("redo", currentHistoryIndex, <<>>, -1, 0)
  /\ UNCHANGED <<productImage, sourceImage, editHistory, edLoading, edError, edReqs,
                 reads, uploads, edits>>
  /\ UNCHANGED <<authVars, appVars, genVars, ttsVars, vidVars>>

\* The application after AuthProvider's mount effect has read the stored
\* usage: nobody is signed in, and the free uses of an earlier visit may be
\* stored (one below the limits of the three tools).
ToolInit ==
  /\ ctxOk = TRUE
  /\ captureOk = TRUE
  /\ codecOk = TRUE
  /\ apiKey \in BOOLEAN
  /\ isAuthenticated = FALSE
  /\ stored \in {RemoveItem,
                 SetItem([image |-> 4, video |-> 1, audio |-> 2, facelessVideo |-> 0])}
  /\ usage = stored.value
  /\ credits = INITIAL_CREDITS
  /\ isModalOpen = FALSE
  /\ InitGenerator
  /\ InitApp
  /\ InitTools

EditorNext ==
  \/ \E tab \in {"faceless", "image"} : SwitchTab(tab)
  \/ EdSelectFile
  \/ \E k \in 1..MaxUploads, ok \in BOOLEAN : EdFileRead(k, ok)
  \/ EdGenerate
  \/ \E k \in 1..MaxInFlight, outcome \in EdOutcomes : EdResponse(k, outcome)
  \/ EdUndo
  \/ EdRedo
  \/ Login
  \/ Logout
  \/ CloseModal

EditorSpec == ToolInit /\ [][EditorNext]_vars

\* -------------------------------------------------------- the audio creator
\* A source is "playing" from start() until it has played its buffer
\* ("finished") or stop() was called on it ("stopped"); either way the
\* browser then dispatches its ended event as a task of its own ("ended").
Tts(o, i) == [op |-> o, source |-> i]

\* source.stop() of stopPlayback (line 31): a playing source stops, and its
\* ended event is still to come; onended stays attached
StopSource(srcs, ref) ==
  IF ref # 0 /\ srcs[ref] = "playing" THEN [srcs EXCEPT ![ref] = "stopped"] ELSE srcs

\* playAudio (88-100): stopPlayback, then a new source is started and
\* becomes audioSourceRef.current; setIsPlaying(true) is the last update
PlayAudio ==
  /\ Len(sources) < MaxSources
  /\ sources' = Append(StopSource(sources, audioSourceRef), "playing")
  /\ audioSourceRef' = Len(sources')
  /\ isPlaying' = TRUE

\* the main button (disabled while isLoading or without text, line 156):
\* handlePlaybackToggle (109-117) with stopPlayback (29-36), playAudio and
\* handleGenerate up to its await (38-68)
TtsToggle ==
  /\ activeTab = "tts"
  /\ ~isModalOpen
  /\ ~ttsLoading
  /\ IF isPlaying
       THEN /\ sources' = StopSource(sources, audioSourceRef)
            /\ audioSourceRef' = 0
            /\ isPlaying' = FALSE
            /\ lastTts' = Tts("stop", audioSourceRef)
            /\ UNCHANGED <<authVars, started, ttsLoading, generatedAudio, ttsError, ttsReqs>>
       ELSE IF generatedAudio
         THEN /\ PlayAudio
              /\ lastTts' = Tts("play", audioSourceRef')
              /\ UNCHANGED <<authVars, started, ttsLoading, generatedAudio, ttsError,
                             ttsReqs>>
         ELSE IF ~checkLimit("audio")
           THEN /\ showLoginModal
                /\ UNCHANGED <<isAuthenticated, usage, credits, stored, started>>
                /\ UNCHANGED <<ttsLoading, isPlaying, generatedAudio, ttsError,
                               audioSourceRef, sources, ttsReqs, lastTts>>
           ELSE IF ~apiKey
             THEN /\ ttsError' = TRUE
                  /\ UNCHANGED <<authVars, started, ttsLoading, isPlaying, generatedAudio,
                                 audioSourceRef, sources, ttsReqs, lastTts>>
             ELSE /\ Len(ttsReqs) < MaxInFlight
                  /\ started < MaxStarts
                  /\ started' = started + 1
                  /\ sources' = StopSource(sources, audioSourceRef)
                  /\ audioSourceRef' = 0
                  /\ isPlaying' = FALSE
                  /\ generatedAudio' = FALSE
                  /\ ttsLoading' = TRUE
                  /\ ttsError' = FALSE
                  /\ ttsReqs' = Append(ttsReqs, [auth |-> isAuthenticated,
                                                 mounted |-> TRUE])
                  /\ lastTts' = Tts("request", 0)
                  /\ UNCHANGED authVars
  /\ UNCHANGED <<activeTab, comp, runs, everAuth, lastOp, ttsCtx>>
  /\ UNCHANGED <<genVars, edVars, vidVars>>

TtsOutcomes == {"audio", "noAudio", "failed"}

\* generateContent settles for the k-th handleGenerate in flight (70-85) and
\* handleGenerateAndPlay plays the buffer it returns (102-107). An unmounted
\* component's context is closed: its new source renders nothing.
TtsResponse(k, outcome) ==
  /\ k \in 1..Len(ttsReqs)
  /\ ttsReqs' = Remove(ttsReqs, k)
  /\ LET req == ttsReqs[k]
     IN IF outcome = "audio"
          THEN /\ incrementUsage("audio", req.auth)
               /\ UNCHANGED <<isAuthenticated, isModalOpen>>
               /\ IF req.mounted
                    THEN /\ generatedAudio' = TRUE
                         /\ ttsLoading' = FALSE
                         /\ PlayAudio
                         /\ lastTts' = Tts("play", audioSourceRef')
                    ELSE UNCHANGED <<generatedAudio, ttsLoading, sources, audioSourceRef,
                                     isPlaying, lastTts>>
               /\ UNCHANGED ttsError
          ELSE /\ IF req.mounted
                    THEN /\ ttsError' = TRUE
                         /\ ttsLoading' = FALSE
                         /\ lastTts' = Tts("failed", 0)
                    ELSE UNCHANGED <<ttsError, ttsLoading, lastTts>>
               /\ UNCHANGED <<authVars, generatedAudio, sources, audioSourceRef, isPlaying>>
  /\ UNCHANGED ttsCtx
  /\ UNCHANGED <<appVars, genVars, edVars, vidVars>>

\* the i-th source has played its buffer to the end
SourceFinish(i) ==
  /\ i \in 1..Len(sources)
  /\ sources[i] = "playing"
  /\ sources' = [sources EXCEPT ![i] = "finished"]
  /\ UNCHANGED <<ttsLoading, isPlaying, generatedAudio, ttsError, ttsCtx, audioSourceRef,
                 ttsReqs, lastTts>>
  /\ UNCHANGED <<authVars, appVars, genVars, edVars, vidVars>>

\* the ended event of the i-th source is dispatched:
\* source.onended = () => setIsPlaying(false) (line 94)
SourceEnded(i) ==
  /\ i \in 1..Len(sources)
  /\ sources[i] \in {"stopped", "finished"}
  /\ sources' = [sources EXCEPT ![i] = "ended"]
  /\ isPlaying' = FALSE
  /\ lastTts' = Tts("ended", i)
  /\ UNCHANGED <<ttsLoading, generatedAudio, ttsError, ttsCtx, audioSourceRef, ttsReqs>>
  /\ UNCHANGED <<authVars, appVars, genVars, edVars, vidVars>>

AudioNext ==
  \/ \E tab \in {"faceless", "tts"} : SwitchTab(tab)
  \/ TtsToggle
  \/ \E k \in 1..MaxInFlight, outcome \in TtsOutcomes : TtsResponse(k, outcome)
  \/ \E i \in 1..MaxSources : SourceFinish(i)
  \/ \E i \in 1..MaxSources : SourceEnded(i)
  \/ Login
  \/ Logout
  \/ CloseModal

AudioSpec == ToolInit /\ [][AudioNext]_vars

\* ------------------------------------------------- the product video generator
\* A handleGenerateVideo call in flight is suspended at checkApiKey
\* ("checkKey"), at generateVideos ("generate"), in the polling loop
\* ("poll": the 10 s timeout and getVideosOperation) or at the download
\* ("fetch": fetch and blob).
VidRun(pc, auth, mounted, interval, done, polls) ==
  [pc |-> pc, auth |-> auth, mounted |-> mounted, interval |-> interval,
   done |-> done, polls |-> polls]

\* clearInterval(messageInterval), line 106
ClearInterval(interval) == "cleared"

\* the mount effect's checkApiKey answers (25-36)
VidKeyStatus(hasKey) ==
  /\ activeTab = "video"
  /\ lastVid.op = "none"
  /\ apiKeySelected' = hasKey
  /\ lastVid' = [NoVid EXCEPT !.op = "key"]
  /\ UNCHANGED <<vidLoading, vidError, generatedVideoUrl, vidRuns>>
  /\ UNCHANGED <<authVars, appVars, genVars, edVars, ttsVars>>

\* handleSelectKey (38-43); its button is shown while no key is selected
VidSelectKey ==
  /\ activeTab = "video"
  /\ ~isModalOpen
  /\ ~apiKeySelected
  /\ apiKeySelected' = TRUE
  /\ lastVid' = [NoVid EXCEPT !.op = "key"]
  /\ UNCHANGED <<vidLoading, vidError, generatedVideoUrl, vidRuns>>
  /\ UNCHANGED <<authVars, appVars, genVars, edVars, ttsVars>>

\* The click on Generate Video (disabled while isLoading, without a source
\* image or without a selected key, line 150): handleGenerateVideo up to
\* await checkApiKey() (45-54); isLoading is not yet set
VidGenerate ==
  /\ activeTab = "video"
  /\ ~isModalOpen
  /\ ~vidLoading
  /\ productImage # 0
  /\ apiKeySelected
  /\ IF ~checkLimit("video")
       THEN /\ showLoginModal
            /\ UNCHANGED <<isAuthenticated, usage, credits, stored, started, vidRuns,
                           lastVid>>
       ELSE /\ Len(vidRuns) < MaxInFlight
            /\ started < MaxStarts
            /\ started' = started + 1
            /\ vidRuns' = Append(vidRuns, VidRun("checkKey", isAuthenticated, TRUE,
                                                 "none", FALSE, 0))
            /\ lastVid' = [NoVid EXCEPT !.op = "click"]
            /\ UNCHANGED authVars
  /\ UNCHANGED <<apiKeySelected, vidLoading, vidError, generatedVideoUrl>>
  /\ UNCHANGED <<activeTab, comp, runs, everAuth, lastOp, genVars, edVars, ttsVars>>

\* checkApiKey of the k-th call answers (54-81): without a key, or without
\* process.env.API_KEY, the handler sets the error and returns; otherwise it
\* sets isLoading, starts the loading-message interval and calls
\* generateVideos
VidKeyChecked(k, hasKey) ==
  /\ k \in 1..Len(vidRuns)
  /\ vidRuns[k].pc = "checkKey"
  /\ LET run == vidRuns[k]
     IN /\ apiKeySelected' = (IF run.mounted THEN hasKey ELSE apiKeySelected)
        /\ IF hasKey /\ apiKey
             THEN /\ vidRuns' = [vidRuns EXCEPT ![k] =
                                   VidRun("generate", run.auth, run.mounted, "running",
                                          FALSE, 0)]
                  /\ vidLoading' = (IF run.mounted THEN TRUE ELSE vidLoading)
                  /\ vidError' = (IF run.mounted THEN FALSE ELSE vidError)
                  /\ generatedVideoUrl' = (IF run.mounted THEN FALSE ELSE generatedVideoUrl)
                  /\ lastVid' = [NoVid EXCEPT !.op = "started", !.interval = "running",
                                              !.mounted = run.mounted]
             ELSE /\ vidRuns' = Remove(vidRuns, k)
                  /\ vidError' = (IF run.mounted THEN TRUE ELSE vidError)
                  /\ lastVid' = [NoVid EXCEPT !.op = "returned", !.mounted = run.mounted]
                  /\ UNCHANGED <<vidLoading, generatedVideoUrl>>
  /\ UNCHANGED <<authVars, appVars, genVars, edVars, ttsVars>>

\* the catch block (97-103) and the finally block (104-107) of the k-th call
VidCatch(k, notFound, link) ==
  LET run == vidRuns[k]
  IN /\ vidRuns' = Remove(vidRuns, k)
     /\ vidError' = (IF run.mounted THEN TRUE ELSE vidError)
     /\ apiKeySelected' = (IF run.mounted /\ notFound THEN FALSE ELSE apiKeySelected)
     /\ vidLoading' = (IF run.mounted THEN FALSE ELSE vidLoading)
     /\ lastVid' = [op |-> "exit", exit |-> (IF link THEN "error" ELSE "noLink"),
                    interval |-> ClearInterval(run.interval), link |-> link,
                    video |-> FALSE, counted |-> FALSE, mounted |-> run.mounted]
     /\ UNCHANGED <<authVars, generatedVideoUrl>>

VidOutcomes == {"pending", "link", "noLink", "failed", "notFound"}

\* generateVideos, or getVideosOperation after the 10 s timeout, answers for
\* the k-th call (76-96): while (!operation.done) the handler polls again;
\* a finished operation has a download link or has none
VidOperation(k, outcome) ==
  /\ k \in 1..Len(vidRuns)
  /\ vidRuns[k].pc \in {"generate", "poll"}
  /\ LET run == vidRuns[k]
         polls == IF run.pc = "poll" THEN run.polls + 1 ELSE run.polls
     IN CASE outcome = "pending" ->
               /\ polls < MaxPolls
               /\ vidRuns' = [vidRuns EXCEPT ![k] =
                                VidRun("poll", run.auth, run.mounted, run.interval,
                                       FALSE, polls)]
               /\ lastVid' = [NoVid EXCEPT !.op = "operation", !.interval = run.interval,
                                           !.mounted = run.mounted]
               /\ UNCHANGED <<authVars, apiKeySelected, vidLoading, vidError,
                              generatedVideoUrl>>
          [] outcome = "link" ->
               /\ vidRuns' = [vidRuns EXCEPT ![k] =
                                VidRun("fetch", run.auth, run.mounted, run.interval,
                                       TRUE, polls)]
               /\ lastVid' = [NoVid EXCEPT !.op = "operation", !.interval = run.interval,
                                           !.link = TRUE, !.mounted = run.mounted]
               /\ UNCHANGED <<authVars, apiKeySelected, vidLoading, vidError,
                              generatedVideoUrl>>
          [] outcome = "noLink" -> VidCatch(k, FALSE, FALSE)
          [] OTHER -> VidCatch(k, outcome = "notFound", TRUE)
  /\ UNCHANGED <<appVars, genVars, edVars, ttsVars>>

FetchOutcomes == {"video", "httpError", "failed"}

\* fetch(downloadLink) and videoResponse.blob() settle for the k-th call
\* (90-93, 104-107). fetch resolves with a Response whatever its HTTP
\* status; the handler does not look at the status.
VidFetch(k, outcome) ==
  /\ k \in 1..Len(vidRuns)
  /\ vidRuns[k].pc = "fetch"
  /\ LET run == vidRuns[k]
     IN IF outcome = "failed"
          THEN VidCatch(k, FALSE, TRUE)
          ELSE /\ vidRuns' = Remove(vidRuns, k)
               /\ generatedVideoUrl' = (IF run.mounted THEN TRUE ELSE generatedVideoUrl)
               /\ incrementUsage("video", run.auth)
               /\ vidLoading' = (IF run.mounted THEN FALSE ELSE vidLoading)
               /\ lastVid' = [op |-> "exit", exit |-> "success",
                              interval |-> ClearInterval(run.interval), link |-> TRUE,
                              video |-> (outcome = "video"), counted |-> TRUE,
                              mounted |-> run.mounted]
               /\ UNCHANGED <<isAuthenticated, isModalOpen, apiKeySelected, vidError>>
  /\ UNCHANGED <<appVars, genVars, edVars, ttsVars>>

VideoNext ==
  \/ \E tab \in {"image", "video"} : SwitchTab(tab)
  \/ EdSelectFile
  \/ \E k \in 1..MaxUploads, ok \in BOOLEAN : EdFileRead(k, ok)
  \/ \E hasKey \in BOOLEAN : VidKeyStatus(hasKey)
  \/ VidSelectKey
  \/ VidGenerate
  \/ \E k \in 1..MaxInFlight, hasKey \in BOOLEAN : VidKeyChecked(k, hasKey)
  \/ \E k \in 1..MaxInFlight, outcome \in VidOutcomes : VidOperation(k, outcome)
  \/ \E k \in 1..MaxInFlight, outcome \in FetchOutcomes : VidFetch(k, outcome)
  \/ Login
  \/ Logout
  \/ CloseModal

VideoSpec == ToolInit /\ [][VideoNext]_vars

\* ================================================================= claims
RunInvoked == asmPc # "idle"

Settled == promise \in {"resolved", "rejected"}

DecodeFailed == \E i \in 1..N : img[i] = "failed"

\* nothing of the run is left to happen: every image has fired its event, no
\* render tick is scheduled, the recorder is not running and owes no event
NothingLeft ==
  /\ \A i \in 1..N : img[i] # "loading"
  /\ ~rafPending
  /\ recState # "recording"
  /\ evQueue = <<>>

\* set-up threw after every image had decoded
SetupFailed == asmPc = "thrown" /\ \A i \in 1..N : img[i] = "loaded"

\* C1: once an image has failed to decode, the promise of assembleVideo is
\* rejected, and the encoder was never started, audio playback was never
\* started and no blob was produced.
C1_DecodeFailureRejects ==
  DecodeFailed =>
    /\ promise = "rejected"
    /\ recStarts = 0
    /\ audioStarts = 0
    /\ ~blob.built

\* C2: every invocation of assembleVideo settles its promise: when every
\* image has fired load or error, no render tick is outstanding and the
\* encoder has answered everything it was asked, the promise is resolved or
\* rejected, never still pending.
C2_EveryRunSettles == (RunInvoked /\ NothingLeft) => Settled

\* C3: when set-up fails after image decoding (captureStream unsupported or
\* throwing, MediaRecorder construction throwing), the promise of
\* assembleVideo is rejected.
C3_SetupFailureRejects == SetupFailed => promise = "rejected"

\* C4: once the encoder has reported an error, the promise is rejected and
\* the accumulated chunks are never concatenated into a blob.
C4_ErrorDiscardsChunks == errorReported => (promise = "rejected" /\ ~blob.built)

\* C5: after the run has failed on an encoder error, no further frame is
\* rendered, no further render tick is scheduled and no encoder stop is
\* requested.
C5_FailedIsTerminal ==
  [][(errorReported /\ promise = "rejected") =>
       /\ framesRendered' = framesRendered
       /\ rafCalls' = rafCalls
       /\ stopRequests' = stopRequests]_vars

\* the parts of C6 about a settled promise: it is settled once, and resolved
\* only after the loop saw t >= D, asked for the stop, and no error came first
ResolvedOnlyComplete ==
  promise = "resolved" =>
    /\ stopRequests >= 1
    /\ lastTick.stopped /\ lastTick.t >= D
    /\ ~errorReported
    /\ blob.built

\* C6: the result is settled at most once and is never partial: resolved only
\* when the loop observed t >= D and requested the stop with no encoder error
\* before the stop event, and rejected in every other run that has come to
\* its end.
C6_SettledOnceNeverPartial ==
  /\ [][Settled => promise' = promise]_vars
  /\ [](ResolvedOnlyComplete)
  /\ []((RunInvoked /\ NothingLeft /\ promise # "resolved") => promise = "rejected")

\* C7: in every render tick that draws a frame (N >= 1, D > 0, 0 <= t < D)
\* the index used to pick the image is within 0..N-1, and from one tick to
\* the next neither the elapsed time nor the scene index decreases.
C7_SceneIndexInRangeMonotone ==
  /\ []((lastTick.seen /\ N >= 1 /\ D > 0 /\ lastTick.t < D) =>
          /\ lastTick.t >= 0
          /\ lastTick.rendered
          /\ currentScene >= 0
          /\ currentScene < N)
  /\ [][(lastTick' # lastTick /\ N >= 1 /\ D > 0 /\ lastTick'.t < D) =>
          /\ lastTick'.t >= lastTick.t
          /\ currentScene' >= currentScene]_vars

C7_Witness ==
  /\ N = 3
  /\ lastTick.rendered
  /\ framesRendered >= 3
  /\ currentScene = 2

\* C8: the pipeline only ever runs with at least one scene image and a
\* positive narration duration: whenever assembleVideo has been called, and
\* at every render tick, N >= 1 and D > 0.
C8_AtLeastOneScene == RunInvoked => (N >= 1 /\ D > 0)

\* C9: the encoder stop is requested at most once, on the first tick with
\* t >= D, where no frame is rendered and no tick is scheduled; on every
\* tick with t < D one frame is rendered, one next tick is scheduled and no
\* stop has been requested.
C9_StopOnceAtEnd ==
  /\ stopRequests <= 1
  /\ lastTick.seen =>
       IF lastTick.t >= D
         THEN /\ lastTick.stopped /\ stopRequests = 1
              /\ ~lastTick.rendered /\ ~lastTick.scheduled /\ ~rafPending
         ELSE /\ ~lastTick.stopped /\ stopRequests = 0
              /\ lastTick.rendered /\ lastTick.scheduled /\ rafPending

\* C10: the blob assembleVideo resolves with exists only once the encoder's
\* stop event has been handled, is tagged video/webm, and holds exactly the
\* chunks the encoder emitted, those after the stop request included, in
\* emission order.
C10_BlobIsAllChunksInOrder ==
  /\ blob.built => (recState = "inactive" /\ evQueue = <<>>)
  /\ promise = "resolved" =>
       /\ blob.built
       /\ blob.type = "video/webm"
       /\ blob.parts = emitted

C10_Witness ==
  /\ promise = "resolved"
  /\ Len(blob.parts) >= 3
  /\ framesRendered >= 2

\* every image of the call has decoded
AllDecoded == \A i \in 1..N : img[i] = "loaded"

\* C11: whatever the order the decodes complete in, audio playback, the
\* encoder and the render loop are started only after every one of the N
\* images has decoded, and the decoded frames are N in number and in the
\* order of the input images.
C11_StartAfterAllDecodedInOrder ==
  /\ (audioStarts > 0 \/ recStarts > 0 \/ rafCalls > 0) => AllDecoded
  /\ asmPc = "recording" =>
       /\ Len(imageElements) = N
       /\ \A i \in 1..N : imageElements[i] = i

C11_Witness ==
  /\ asmPc = "recording"
  /\ N = 3
  /\ outOfOrder
  /\ framesRendered >= 1

\* C12: in one assembly run audio playback is started at most once, and
\* exactly once in a run that reaches Recording.
C12_AudioStartedOnce ==
  /\ audioStarts <= 1
  /\ asmPc = "recording" => audioStarts = 1

C12_Witness ==
  /\ asmPc = "recording"
  /\ audioStarts = 1
  /\ lastTick.stopped

\* C13: the epoch of the render loop is the instant audio playback starts:
\* startTime equals the playback start, and the stop is requested at the
\* first tick at which D of narration has elapsed since playback start.
C13_EpochIsPlaybackStart ==
  /\ asmPc = "recording" => startTime = audioStartTime
  /\ lastTick.stopped =>
       /\ clock - audioStartTime >= D
       /\ lastElapsed + (startTime - audioStartTime) < D

\* C14: the encoder is started before audio playback: audio is never
\* running while the encoder has not been started.
C14_EncoderBeforeAudio ==
  audioStarts > 0 => (recStarts > 0 /\ recStartTime <= audioStartTime)

\* C15: the scene a tick draws is a function of the elapsed time of that
\* tick alone, min(floor(t / (D/N)), N-1), whatever ticks came before it or
\* were dropped; the image drawn is the one of that scene.
C15_SceneDependsOnTimeOnly ==
  lastTick.rendered =>
    /\ lastFrame.scene = Min((lastTick.t * N) \div D, N - 1)
    /\ currentScene = lastFrame.scene
    /\ lastFrame.image = lastFrame.scene + 1

C15_Witness ==
  /\ lastTick.rendered
  /\ framesRendered = 1
  /\ lastTick.t >= 2
  /\ currentScene >= 1

\* C16: the scene index is k for every t in [k*D/N, (k+1)*D/N), 0 <= k < N:
\* 0 at t = 0 and N-1 just before D; for N = 3 and D = 9 (in tenths of a
\* second: 90) it is 1 at t = 3.0 and 2 at t = 8.9.
C16_SceneIndexIntervals ==
  /\ lastTick.rendered =>
       /\ currentScene \in 0..(N - 1)
       /\ currentScene * D <= lastTick.t * N
       /\ lastTick.t * N < (currentScene + 1) * D
       /\ (lastTick.t = 0 => currentScene = 0)
       /\ (lastTick.t * N >= (N - 1) * D => currentScene = N - 1)
  /\ SceneIndex(0, 90, 3) = 0
  /\ SceneIndex(30, 90, 3) = 1
  /\ SceneIndex(89, 90, 3) = 2

C16_Witness ==
  /\ lastTick.rendered
  /\ N = 3 /\ D = 3
  /\ lastTick.t = 1
  /\ currentScene = 1

\* C17: at every render tick with 0 <= t < D the intra-scene progress lies
\* in [0, 1), and it is 0 at every scene boundary t = k * sceneDuration.
C17_ProgressInUnitInterval ==
  lastTick.rendered =>
    /\ lastFrame.p >= 0
    /\ lastFrame.p < D
    /\ (\E k \in 0..(N - 1) : lastTick.t * N = k * D) => lastFrame.p = 0

C17_Witness ==
  /\ lastTick.rendered
  /\ currentScene >= 1
  /\ lastFrame.p = 0
  /\ framesRendered >= 2

\* C18: scale(p) = 1 + 0.1 p, so scale(0) = 1, scale is strictly increasing
\* and below 1.1 on [0,1); the destination rectangle is the native size
\* times the scale and is centred on the 1280x720 canvas.
C18_KenBurnsCentred ==
  /\ \A q \in 0..(D - 1) :
       /\ Scale(0, D) = 10 * D
       /\ Scale(q, D) < 11 * D
       /\ \A r \in 0..(D - 1) : q < r => Scale(q, D) < Scale(r, D)
  /\ lastTick.rendered =>
       /\ lastFrame.scale = 10 * D + lastFrame.p
       /\ lastFrame.w = 2 * imgSize.w * lastFrame.scale
       /\ lastFrame.h = 2 * imgSize.h * lastFrame.scale
       /\ 2 * lastFrame.x + lastFrame.w = 2 * 1280 * 10 * D
       /\ 2 * lastFrame.y + lastFrame.h = 2 * 720 * 10 * D

C18_Witness ==
  /\ lastTick.rendered
  /\ lastFrame.p > 0
  /\ imgSize.w = 1920
  /\ lastFrame.x < 0

\* C19: with one scene every rendered frame draws image 0, and the stop is
\* requested at the first tick with t >= D: the span from the epoch to the
\* stop request is at least D and exceeds D by less than the gap to the
\* tick before it.
C19_SingleSceneWholeDuration ==
  N = 1 =>
    /\ lastTick.rendered => (currentScene = 0 /\ lastFrame.image = 1)
    /\ lastTick.stopped =>
         /\ lastTick.t >= D
         /\ lastTick.t - D < lastTick.t - lastElapsed
         /\ stopRequests = 1

C19_Witness ==
  /\ N = 1
  /\ lastTick.stopped
  /\ framesRendered >= 2
  /\ lastTick.t > D

\* C20: when image generation has failed for a scene, the run is aborted:
\* assembleVideo is not called, result.videoUrl stays null and the error
\* message is set.
C20_ImageFailureAborts ==
  imgGenFailed =>
    /\ asmPc = "idle"
    /\ promise = "none"
    /\ ~result.videoUrl
    /\ error = "An error occurred"
    /\ hgPc = "idle"
    /\ ~isLoading

C20_Witness ==
  /\ imgGenFailed
  /\ result.scriptData.scenes = 3
  /\ error # "null"
  /\ audioContext = "closed"

\* C21: a script response that is malformed or off the schema fails the
\* run: no image generation, audio generation or assembly step is performed,
\* the error message is set and no video URL is produced.
C21_BadScriptAborts ==
  scriptBad =>
    /\ hgPc = "idle"
    /\ asmPc = "idle"
    /\ error = "An error occurred"
    /\ ~result.videoUrl

\* a handleGenerate run has ended (its finally block ran) short of four steps
RunFailed == hgPc = "idle" /\ audioContext = "closed" /\ stepsOk < 4

C25_IncrementOnlyOnSuccess ==
  /\ incCalls = (IF stepsOk = 4 THEN 1 ELSE 0)
  /\ stepsOk = 4 <=> result.videoUrl
  /\ incCalls = 0 =>
       (usage.facelessVideo <= FREE_LIMITS.facelessVideo
        /\ credits \in {INITIAL_CREDITS, INITIAL_CREDITS - 91})

C25_Witness ==
  /\ incCalls = 1
  /\ stepsOk = 4
  /\ ~hgAuth
  /\ usage.facelessVideo = 1
  /\ stored = SetItem(usage)

C24_SecondCallStartsAfresh ==
  asmPc = "recording" =>
    /\ startTime \in 0..MaxSetupDelay
    /\ ~lastTick.seen => currentScene = 0
    /\ lastTick.seen => lastTick.t = clock - startTime
    /\ lastTick.rendered => currentScene = Min((lastTick.t * N) \div D, N - 1)
    /\ lastTick.stopped =>
         /\ lastTick.t >= D
         /\ stopRequests = 1
         /\ framesRendered > 0 => lastElapsed < D
    /\ \A i \in 1..Len(chunks) : i <= Len(emitted) /\ chunks[i] = emitted[i]
    /\ blob.built => blob.parts = emitted

C24_Witness ==
  /\ runNo = 2
  /\ asmPc = "recording"
  /\ promise = "resolved"
  /\ framesRendered >= 2
  /\ currentScene = 1
  /\ Len(blob.parts) = 2

\* the faceless-video handlers in flight
FacelessRuns == {k \in 1..Len(runs) : runs[k].type = "facelessVideo"}

\* C23: at most one faceless-video assembly, and at most one handleGenerate
\* run, is active at any time: a second run cannot be started while an
\* earlier one is in flight, also when the user leaves the faceless-video
\* tab during a run and returns to it.
C23_SingleActiveRun == Cardinality(FacelessRuns) <= 1

\* C27: a generate handler that finds checkLimit(type) false performs no
\* remote call and changes no state of its component; for a user who is not
\* signed in its only effect is that the login modal opens.
C27_RefusalChangesNothing ==
  [][lastOp'.op = "refused" =>
       /\ ~checkLimit(lastOp'.type)
       /\ comp' = comp
       /\ runs' = runs
       /\ started' = started
       /\ activeTab' = activeTab
       /\ <<isAuthenticated, usage, credits, stored>>' =
            <<isAuthenticated, usage, credits, stored>>
       /\ isModalOpen' = (IF isAuthenticated THEN isModalOpen ELSE TRUE)]_vars

C27_Witness ==
  /\ lastOp.op = "refused"
  /\ lastOp.type = "audio"
  /\ ~isAuthenticated
  /\ isModalOpen
  /\ comp.hasResult

\* C28: for a user who stays unauthenticated usage[type] <= FREE_LIMITS[type]
\* holds after any sequence of generation attempts, attempts that overlap in
\* time included.
C28_UsageWithinFreeLimits ==
  ~everAuth => \A type \in DOMAIN FREE_LIMITS : usage[type] <= FREE_LIMITS[type]

\* C29: 0 <= credits <= 100 always and the credits never increase; the
\* successful end of a generation that a signed-in user started lowers them
\* by 10 for a faceless video and by 1 for any other type, floored at 0; a
\* signed-in user's generation is admitted only with credits >= its cost.
C29_CreditsBoundedMonotone ==
  /\ [](credits \in 0..INITIAL_CREDITS)
  /\ [][/\ credits' <= credits
        /\ (lastOp'.op = "done" /\ lastOp'.auth) =>
             credits' = (IF lastOp'.type = "facelessVideo"
                           THEN (IF credits >= 10 THEN credits - 10 ELSE 0)
                           ELSE (IF credits >= 1 THEN credits - 1 ELSE 0))
        /\ (lastOp'.op = "done" /\ ~lastOp'.auth) => credits' = credits
        /\ (lastOp'.op = "started" /\ isAuthenticated) =>
             credits >= (IF lastOp'.type = "facelessVideo" THEN 10 ELSE 1)]_vars

C29_Witness ==
  /\ lastOp.op = "done"
  /\ lastOp.auth
  /\ lastOp.type = "facelessVideo"
  /\ credits = 0

\* C30: after logout the anonymous usage counters are all zero and the
\* stored 'usageLimits' item is removed; after every incrementUsage by a
\* user who is not signed in the stored value equals the usage in memory; a
\* generation started before a logout and completed after it leaves the two
\* equal: at all times the stored item, if there is one, equals the usage,
\* and without one the usage is zero.
C30_StoredUsageMatches ==
  /\ lastOp.op = "logout" => (usage = ZeroUsage /\ ~stored.present)
  /\ (lastOp.op = "done" /\ ~lastOp.auth) => stored = SetItem(usage)
  /\ stored.present => stored.value = usage
  /\ ~stored.present => usage = ZeroUsage

C30_Witness ==
  /\ lastOp.op = "done"
  /\ lastOp.afterLogout
  /\ ~lastOp.auth
  /\ usage.facelessVideo = 1
  /\ stored = SetItem(usage)

\* C31: in the image editor, after any sequence of successful edits, failed
\* edits, undo and redo, currentHistoryIndex is -1 exactly when editHistory
\* is empty and otherwise lies in 0 .. editHistory.length - 1; an undo moves
\* the index down by one and not below 0, a redo moves it up by one and not
\* past the last entry, also while an edit request is in flight.
C31_HistoryIndexInRange ==
  /\ (currentHistoryIndex = -1) <=> (editHistory = <<>>)
  /\ editHistory # <<>> => currentHistoryIndex \in 0..(Len(editHistory) - 1)
  /\ lastEd.op = "undo" =>
        (currentHistoryIndex = lastEd.from - 1 /\ currentHistoryIndex >= 0)
  /\ lastEd.op = "redo" =>
        (currentHistoryIndex = lastEd.from + 1
         /\ currentHistoryIndex <= Len(editHistory) - 1)

\* an undo down to the first entry while an edit request is in flight
C31_Witness ==
  /\ lastEd.op = "undo"
  /\ edLoading
  /\ \E k \in 1..Len(edReqs) : edReqs[k].mounted
  /\ currentHistoryIndex = 0
  /\ Len(editHistory) = 2

\* C32: a successful edit discards the redo tail: the new history is the
\* entries 0 .. currentHistoryIndex of the history as of the click that
\* requested the edit, followed by the new edit; the index points at the new
\* last entry and redo is not possible; an undo from an index above 0
\* followed by a redo returns to that index.
C32_EditDiscardsRedoTail ==
  /\ lastEd.op = "edited" =>
        /\ editHistory = SubSeq(lastEd.hist, 1, lastEd.idx + 1) \o <<lastEd.new>>
        /\ currentHistoryIndex = Len(editHistory) - 1
        /\ ~(currentHistoryIndex < Len(editHistory) - 1)
  /\ (lastEd.op = "redo" /\ lastEd.prevOp = "undo" /\ lastEd.prevFrom > 0) =>
        currentHistoryIndex = lastEd.prevFrom

\* an edit requested after an undo has replaced the entry that was undone
C32_Witness ==
  /\ lastEd.op = "edited"
  /\ Len(lastEd.hist) = 2
  /\ lastEd.idx = 0
  /\ editHistory = <<lastEd.hist[1], lastEd.new>>

Playing == {i \in 1..Len(sources) : sources[i] = "playing"}

\* C33: in the audio creator isPlaying is true whenever a source started by
\* playAudio is still playing, and at most one source plays at a time; in
\* particular the ended event of a source stopped earlier does not set
\* isPlaying to false while a newer source is playing.
C33_PlayingIsShown ==
  /\ Cardinality(Playing) <= 1
  /\ Playing # {} => isPlaying

\* C34: once handleGenerateVideo has started its loading-message interval,
\* every exit (success, missing download link, thrown error) leaves the
\* interval cleared and isLoading false; the operation is polled only while
\* it is not done; and incrementUsage('video') is called only after a
\* download link was found and the video was fetched.
C34_VideoRunCleansUpAndCounts ==
  /\ lastVid.op = "exit" =>
        /\ lastVid.interval = "cleared"
        /\ lastVid.mounted => ~vidLoading
        /\ lastVid.counted => (lastVid.link /\ lastVid.video)
  /\ \A k \in 1..Len(vidRuns) :
        /\ vidRuns[k].pc = "poll" => ~vidRuns[k].done
        /\ vidRuns[k].interval = "running" <=> vidRuns[k].pc # "checkKey"
====
